---------------------------- MODULE Spec2Model ----------------------------
(***************************************************************************)
(* A model of api-server/utils.py of chatgpt-hn-plugin: the listing query  *)
(* (get_items), the search pipeline (semantic_search, compute_rankings,    *)
(* normalize), the comment preview (get_comments_text) and the request     *)
(* timeout middleware (TimeoutMiddleware.dispatch).                        *)
(*                                                                         *)
(* Conventions.                                                            *)
(*  - A Python/SQL value that may be None/NULL is a sequence of length 0   *)
(*    (None) or 1 (<<v>>).                                                 *)
(*  - A Python str is a sequence of one-character strings, so that strip,  *)
(*    split and lower are computed character by character.                 *)
(*  - A semantic distance is a float in the source; here it is an integer  *)
(*    number of tenths.  Min-max normalisation is invariant under that     *)
(*    scaling.  Fused scores are kept as exact integers over a denominator *)
(*    common to all candidates of one request (floating-point rounding is  *)
(*    not modelled).                                                       *)
(***************************************************************************)
EXTENDS Integers, Sequences, FiniteSets, TLC

VARIABLES
    store,        \* the database: [items: id -> optional row, kids: set of edges]
    args,         \* the arguments of the request being handled
    pc,           \* position of the handler
    query,        \* semantic_search: local `query`
    results,      \* semantic_search: local `results`
    expanded,     \* compute_rankings: local `expanded`
    rankings,     \* compute_rankings: its return value
    stories,      \* semantic_search: local `stories`
    idx,          \* position of the running for-loop (1-based)
    cursor,       \* semantic_search: local `cursor` (0: unbound)
    openCursors,  \* cursors opened by session.execute and not closed
    nextCursor,   \* identity of the next cursor session.execute creates
    error,        \* the exception that ended the handler ("" if none)
    storeOps,     \* number of statements executed against the store
    listed,       \* get_items: the returned list
    engine,       \* get_items: how the database orders rows the query leaves unordered
    comments,     \* get_comments_text: local `comments`
    comment_text, \* get_comments_text: local `comment_text`, as rows
    runMode,      \* how the handler is run under the middleware
    mw,           \* position of TimeoutMiddleware.dispatch
    response,     \* status code sent to the caller (0: none yet)
    timedOutIn    \* handler position when wait_for raised TimeoutError

vars == <<store, args, pc, query, results, expanded, rankings, stories, idx,
          cursor, openCursors, nextCursor, error, storeOps, listed, engine,
          comments, comment_text, runMode, mw, response, timedOutIn>>

searchVars == <<query, results, expanded, rankings, stories, cursor,
                openCursors, nextCursor>>
listVars == <<listed, engine>>
previewVars == <<comments, comment_text>>
mwVars == <<runMode, mw, response, timedOutIn>>

---------------------------------------------------------------------------
(* Optional values and small helpers                                       *)

None == <<>>
Some(v) == <<v>>
IsNone(o) == o = <<>>
Get(o) == o[1]

Range(s) == {s[k] : k \in 1..Len(s)}
SetMin(S) == CHOOSE x \in S : \A y \in S : x <= y
SetMax(S) == CHOOSE x \in S : \A y \in S : x >= y
MinOf(a, b) == IF a <= b THEN a ELSE b

\* s[:n] for n >= 0
Take(s, n) == SubSeq(s, 1, MinOf(n, Len(s)))
\* s[n:] for n >= 0
Drop(s, n) == SubSeq(s, n + 1, Len(s))

---------------------------------------------------------------------------
(* Python str operations                                                   *)

Whitespace == {" ", "\t", "\n"}
UpperChars == <<"A", "B", "C", "D", "E", "F", "G", "H", "I", "J", "K", "L", "M",
                "N", "O", "P", "Q", "R", "S", "T", "U", "V", "W", "X", "Y", "Z">>
LowerChars == <<"a", "b", "c", "d", "e", "f", "g", "h", "i", "j", "k", "l", "m",
                "n", "o", "p", "q", "r", "s", "t", "u", "v", "w", "x", "y", "z">>

LowerChar(c) ==
    IF \E k \in 1..Len(UpperChars) : UpperChars[k] = c
    THEN LowerChars[CHOOSE k \in 1..Len(UpperChars) : UpperChars[k] = c]
    ELSE c

\* str.lower()
Lower(s) == [k \in 1..Len(s) |-> LowerChar(s[k])]

\* str.strip()
Strip(s) ==
    LET keep == {k \in 1..Len(s) : s[k] \notin Whitespace}
    IN  IF keep = {} THEN <<>> ELSE SubSeq(s, SetMin(keep), SetMax(keep))

RECURSIVE SplitWords(_, _)
SplitWords(s, cur) ==
    IF s = <<>> THEN (IF cur = <<>> THEN <<>> ELSE <<cur>>)
    ELSE IF Head(s) \in Whitespace
         THEN (IF cur = <<>> THEN <<>> ELSE <<cur>>) \o SplitWords(Tail(s), <<>>)
         ELSE SplitWords(Tail(s), Append(cur, Head(s)))

\* str.split() with no separator: runs of whitespace separate, no empty words
Split(s) == SplitWords(s, <<>>)

\* set(word.lower() for word in s.split())
WordSet(s) == {Lower(w) : w \in Range(Split(s))}

\* len(query_words.intersection(title_words))
Matches(q, title) == Cardinality(WordSet(q) \cap WordSet(title))

\* `needle in hay`, the substring test behind Column.contains
Contains(hay, needle) ==
    \E k \in 0..(Len(hay) - Len(needle)) :
        SubSeq(hay, k + 1, k + Len(needle)) = needle

---------------------------------------------------------------------------
(* The store: table `items` and association table `kids`                   *)

\* one row of `items`; every column but id is nullable
Row(id, type, title, text, score, time, by, descendants) ==
    [id |-> id, type |-> type, title |-> title, text |-> text, score |-> score,
     time |-> time, by |-> by, descendants |-> descendants]

\* one row of `kids`
Edge(item, kid, display_order) ==
    [item |-> item, kid |-> kid, display_order |-> display_order]

\* Python truthiness of an optional str: neither None nor ""
Truthy(o) == ~IsNone(o) /\ Get(o) # <<>>

\* SELECT ... FROM items WHERE id = :id, then cursor.fetchone()
FetchOne(st, id) == IF id \in DOMAIN st.items THEN st.items[id] ELSE None

\* ORDER BY k.display_order (rows of equal display_order by kid id)
EdgeBefore(e, f) ==
    \/ e.display_order < f.display_order
    \/ e.display_order = f.display_order /\ e.kid < f.kid

\* SELECT i.* FROM items i JOIN kids k ON i.id = k.kid
\*  WHERE k.item = :parent AND i.type = 'comment' ORDER BY k.display_order LIMIT :lim
KidComments(st, parent, lim) ==
    LET joined == {e \in st.kids :
                      /\ e.item = parent
                      /\ ~IsNone(FetchOne(st, e.kid))
                      /\ Get(FetchOne(st, e.kid)).type = Some("comment")}
        ordered == [k \in 1..Cardinality(joined) |->
                      CHOOSE e \in joined :
                          Cardinality({f \in joined : EdgeBefore(f, e)}) = k - 1]
    IN  Take([k \in 1..Len(ordered) |-> Get(FetchOne(st, ordered[k].kid))], lim)

---------------------------------------------------------------------------
(* get_comments_text                                                       *)

\* LIMIT 10 of the top-level query, LIMIT 1 of the child query
TopLimit == 10
ChildLimit == 1

\* A faulty variant of CommentStep: the reply is looked up among all kids of
\* the story's comment, and the last one is taken instead of the first.
CommentStepLastChild(st, acc, comment) ==
    IF Truthy(comment.text)
    THEN LET child == KidComments(st, comment.id, TopLimit)
         IN  Append(acc, comment)
               \o (IF child # <<>> /\ Truthy(child[Len(child)].text)
                   THEN <<child[Len(child)]>> ELSE <<>>)
    ELSE acc

\* One iteration of `for comment in comments`.  The rows whose text is
\* appended are kept whole; the function's result is their text column.
CommentStep(st, acc, comment) ==
    IF Truthy(comment.text)
    THEN LET child == KidComments(st, comment.id, ChildLimit)
         IN  Append(acc, comment)
               \o (IF child # <<>> /\ Truthy(child[1].text)
                   THEN <<child[1]>> ELSE <<>>)
    ELSE acc

RECURSIVE CommentLoop(_, _, _)
CommentLoop(st, acc, cs) ==
    IF cs = <<>> THEN acc
    ELSE CommentLoop(st, CommentStep(st, acc, Head(cs)), Tail(cs))

TextOf(rows) == [k \in 1..Len(rows) |-> Get(rows[k].text)]

\* get_comments_text(cursor, story_id)
GetCommentsText(st, story_id) ==
    TextOf(CommentLoop(st, <<>>, KidComments(st, story_id, TopLimit)))

\* statements get_comments_text executes: the top-level query and one child
\* query per comment with text
CommentStatements(st, story_id) ==
    LET cs == KidComments(st, story_id, TopLimit)
    IN  1 + Cardinality({k \in 1..Len(cs) : Truthy(cs[k].text)})

---------------------------------------------------------------------------
(* normalize and compute_rankings                                          *)

\* A faulty variant of Normalize: the `if reverse` inversion is left out.
NormalizeNoReverse(values, reverse) ==
    LET min_val == SetMin(Range(values))
        max_val == SetMax(Range(values))
        den == max_val - min_val
    IN  [ok  |-> den # 0,
         den |-> den,
         num |-> [k \in 1..Len(values) |-> values[k] - min_val]]

\* normalize(values, reverse): the k-th result is num[k] / den.  The
\* division raises ZeroDivisionError when max_val = min_val (ok = FALSE).
Normalize(values, reverse) ==
    LET min_val == SetMin(Range(values))
        max_val == SetMax(Range(values))
        den == max_val - min_val
    IN  [ok  |-> den # 0,
         den |-> den,
         num |-> [k \in 1..Len(values) |->
                    IF reverse THEN den - (values[k] - min_val)
                               ELSE values[k] - min_val]]

\* w1, w2, w3, w4 = 0.4, 0.4, 0.1, 0.1, in tenths
W1 == 4
W2 == 4
W3 == 1
W4 == 1

\* sorted(rankings, reverse=True): descending by (score_rank, story_id)
TupleGreater(a, b) == a[1] > b[1] \/ (a[1] = b[1] /\ a[2] > b[2])
SortedReverse(s) == SortSeq(s, TupleGreater)

\* compute_rankings after its first loop.  score_rank is kept as the integer
\* score_rank * 10 * ds * da * dd, where ds, da, dd are the (positive)
\* denominators of the three normalisations: the same factor for every
\* candidate, so the order of the tuples is that of the source's.
RankExpanded(q, exp) ==
    IF exp = <<>>
    THEN \* zip(*[]) yields nothing to unpack into scores, ages, distances
         [error |-> "ValueError", rankings |-> <<>>]
    ELSE LET scores    == [k \in 1..Len(exp) |-> exp[k].score]
             ages      == [k \in 1..Len(exp) |-> exp[k].age]
             distances == [k \in 1..Len(exp) |-> exp[k].distance]
             ns == Normalize(scores, FALSE)
             na == Normalize(ages, FALSE)
             nd == Normalize(distances, TRUE)
         IN  IF ~ns.ok \/ ~na.ok \/ ~nd.ok
             THEN [error |-> "ZeroDivisionError", rankings |-> <<>>]
             ELSE [error |-> "",
                   rankings |-> SortedReverse(
                     [k \in 1..Len(exp) |->
                        << W1 * ns.num[k] * nd.den * na.den
                             + W2 * nd.num[k] * ns.den * na.den
                             + W3 * na.num[k] * ns.den * nd.den
                             + W4 * Matches(q, exp[k].title)
                                  * ns.den * nd.den * na.den,
                           exp[k].story_id >>])]

---------------------------------------------------------------------------
(* Scheduling of the handler under TimeoutMiddleware                       *)

\* runMode "direct": the handler is called without the middleware.
\* runMode "thread": the handler runs in a worker thread, concurrently with
\*   the event loop that runs dispatch; a thread cannot be cancelled.
\* runMode "loop": the handler runs on the event loop; it has no await, so
\*   nothing else runs between its first and its last statement.
\* The handler starts only while dispatch is waiting for it.
CanStart == runMode = "direct" \/ mw = "waiting"
CanStep ==
    \/ runMode = "direct"
    \/ runMode = "thread" /\ mw # "idle"
    \/ runMode = "loop" /\ mw = "waiting"

---------------------------------------------------------------------------
(* semantic_search and the first loop of compute_rankings                  *)

\* query = query.strip()
SearchStrip ==
    /\ pc = "start"
    /\ CanStart
    /\ query' = Strip(args.query)
    /\ pc' = "provider"
    /\ UNCHANGED <<store, args, results, expanded, rankings, stories, idx, cursor,
                   openCursors, nextCursor, error, storeOps>>
    /\ UNCHANGED <<listVars, previewVars, mwVars>>

\* req = requests.get(url, params={"query": query}); results = req.json()
\* returns: the provider's candidates are args.candidates
ProviderReturn ==
    /\ pc = "provider"
    /\ CanStep
    /\ results' = args.candidates
    /\ expanded' = <<>>
    /\ idx' = 1
    /\ pc' = "rank"
    /\ UNCHANGED <<store, args, query, rankings, stories, cursor, openCursors,
                   nextCursor, error, storeOps>>
    /\ UNCHANGED <<listVars, previewVars, mwVars>>

\* compute_rankings: one iteration of `for (story_id, distance) in results`
RankLookup ==
    /\ pc = "rank"
    /\ CanStep
    /\ idx <= Len(results)
    /\ LET story_id == results[idx][1]
           distance == results[idx][2]
           row      == FetchOne(store, story_id)
       IN  /\ nextCursor' = nextCursor + 1
           /\ storeOps' = storeOps + 1
           /\ IF IsNone(row)
              THEN \* title, score, age = None raises TypeError
                   /\ openCursors' = openCursors \cup {nextCursor}
                   /\ error' = "TypeError"
                   /\ pc' = "error"
                   /\ UNCHANGED <<expanded, idx>>
              ELSE IF IsNone(Get(row).title)
              THEN \* continue, before cursor.close()
                   /\ openCursors' = openCursors \cup {nextCursor}
                   /\ idx' = idx + 1
                   /\ UNCHANGED <<expanded, error, pc>>
              ELSE /\ expanded' = Append(expanded,
                        [story_id |-> story_id,
                         distance |-> distance,
                         title    |-> Get(Get(row).title),
                         score    |-> IF IsNone(Get(row).score) THEN 1
                                      ELSE Get(Get(row).score),
                         age      |-> IF IsNone(Get(row).time) THEN 0
                                      ELSE Get(Get(row).time)])
                   /\ openCursors' = openCursors
                   /\ idx' = idx + 1
                   /\ UNCHANGED <<error, pc>>
    /\ UNCHANGED <<store, args, query, results, rankings, stories, cursor>>
    /\ UNCHANGED <<listVars, previewVars, mwVars>>

\* compute_rankings from `scores, ages, distances = zip(...)` to its return,
\* then results = results[:limit]
RankCompute ==
    /\ pc = "rank"
    /\ CanStep
    /\ idx > Len(results)
    /\ LET out == RankExpanded(query, expanded)
       IN  IF out.error # ""
           THEN /\ error' = out.error
                /\ pc' = "error"
                /\ UNCHANGED <<rankings, results, idx>>
           ELSE /\ rankings' = out.rankings
                /\ results' = Take(out.rankings, args.limit)
                /\ idx' = 1
                /\ pc' = "fetch"
                /\ error' = error
    /\ UNCHANGED <<store, args, query, expanded, stories, cursor, openCursors,
                   nextCursor, storeOps>>
    /\ UNCHANGED <<listVars, previewVars, mwVars>>

\* semantic_search: one iteration of `for (_, story_id) in results`
FetchStory ==
    /\ pc = "fetch"
    /\ CanStep
    /\ idx <= Len(results)
    /\ LET story_id  == results[idx][2]
           story_row == FetchOne(store, story_id)
       IN  /\ cursor' = nextCursor
           /\ nextCursor' = nextCursor + 1
           /\ openCursors' = openCursors \cup {nextCursor}
           /\ IF ~IsNone(story_row)
              THEN /\ stories' = Append(stories,
                        [item |-> Get(story_row),
                         comment_text |->
                            IF args.exclude_comments THEN None
                            ELSE Some(GetCommentsText(store, story_id))])
                   /\ storeOps' = storeOps + 1
                        + (IF args.exclude_comments THEN 0
                           ELSE CommentStatements(store, story_id))
              ELSE /\ stories' = stories
                   /\ storeOps' = storeOps + 1
    /\ idx' = idx + 1
    /\ UNCHANGED <<store, args, pc, query, results, expanded, rankings, error>>
    /\ UNCHANGED <<listVars, previewVars, mwVars>>

\* cursor.close() after the loop, then return stories
SearchReturn ==
    /\ pc = "fetch"
    /\ CanStep
    /\ idx > Len(results)
    /\ IF cursor = 0
       THEN \* the loop body never ran: `cursor` is unbound
            /\ error' = "UnboundLocalError"
            /\ pc' = "error"
            /\ UNCHANGED openCursors
       ELSE /\ openCursors' = openCursors \ {cursor}
            /\ pc' = "done"
            /\ UNCHANGED error
    /\ UNCHANGED <<store, args, query, results, expanded, rankings, stories, idx,
                   cursor, nextCursor, storeOps>>
    /\ UNCHANGED <<listVars, previewVars, mwVars>>

---------------------------------------------------------------------------
(* Search requests: the store and the inputs                               *)

MaxCand == 3     \* candidates the provider returns, at most
MaxLimit == 3    \* `limit` of a search request, at most

Str_rust_borrow_checker ==
    <<"r", "u", "s", "t", " ", "b", "o", "r", "r", "o", "w", " ",
      "c", "h", "e", "c", "k", "e", "r">>
Str_Rust_GO_padded == <<" ", " ", "R", "u", "s", "t", " ", "G", "O", "\t">>
Str_Understanding ==
    <<"U", "n", "d", "e", "r", "s", "t", "a", "n", "d", "i", "n", "g", " ",
      "t", "h", "e", " ", "R", "u", "s", "t", " ", "b", "o", "r", "r", "o", "w",
      " ", "c", "h", "e", "c", "k", "e", "r">>
Str_A_Go_tutorial ==
    <<"A", " ", "G", "o", " ", "t", "u", "t", "o", "r", "i", "a", "l">>
Str_Rust_async_patterns ==
    <<"R", "u", "s", "t", " ", "a", "s", "y", "n", "c", " ",
      "p", "a", "t", "t", "e", "r", "n", "s">>
Str_rust == <<"r", "u", "s", "t">>
Str_nice == <<"n", "i", "c", "e">>

\* Items 1..3 are those of the end-to-end example.  Item 4 has no title,
\* item 5 has neither score nor time, item 6 is not in the store, item 7
\* carries the same signals as item 3; items 8 and 9 are a comment on story
\* 1 and a reply to it.
SearchStore ==
    [items |->
        (1 :> Some(Row(1, Some("story"), Some(Str_Understanding), None,
                       Some(50), Some(100), Some("a"), Some(1)))
      @@ 2 :> Some(Row(2, Some("story"), Some(Str_A_Go_tutorial), None,
                       Some(10), Some(50), Some("b"), Some(0)))
      @@ 3 :> Some(Row(3, Some("story"), Some(Str_Rust_async_patterns), None,
                       Some(5), Some(10), Some("a"), Some(0)))
      @@ 4 :> Some(Row(4, Some("story"), None, None,
                       Some(7), Some(20), Some("b"), Some(0)))
      @@ 5 :> Some(Row(5, Some("story"), Some(Str_rust), None,
                       None, None, None, None))
      @@ 7 :> Some(Row(7, Some("story"), Some(Str_Rust_async_patterns), None,
                       Some(5), Some(10), Some("b"), Some(0)))
      @@ 8 :> Some(Row(8, Some("comment"), None, Some(Str_nice),
                       None, Some(110), Some("b"), None))
      @@ 9 :> Some(Row(9, Some("comment"), None, Some(Str_rust),
                       None, Some(120), Some("a"), None))),
     kids |-> {Edge(1, 8, 0), Edge(8, 9, 0)}]

\* (item id, distance in tenths) pairs the provider may return
CandPool == {<<1, 2>>, <<2, 1>>, <<3, 9>>, <<4, 2>>, <<5, 1>>, <<6, 1>>, <<7, 9>>}
\* the provider returns each item at most once
CandidateLists ==
    UNION {{c \in [1..n -> CandPool] :
               \A i, j \in 1..n : c[i][1] = c[j][1] => i = j} : n \in 0..MaxCand}
QueryPool == {Str_rust_borrow_checker, Str_Rust_GO_padded}

SearchArgs ==
    [query : QueryPool, limit : 1..MaxLimit, exclude_comments : BOOLEAN,
     candidates : CandidateLists]

\* handler state before its first statement
InitHandler ==
    /\ pc = "start"
    /\ query = <<>>
    /\ results = <<>>
    /\ expanded = <<>>
    /\ rankings = <<>>
    /\ stories = <<>>
    /\ idx = 0
    /\ cursor = 0
    /\ openCursors = {}
    /\ nextCursor = 1
    /\ error = ""
    /\ storeOps = 0
    /\ listed = <<>>
    /\ engine = "none"
    /\ comments = <<>>
    /\ comment_text = <<>>

InitSearch ==
    /\ store = SearchStore
    /\ args \in SearchArgs
    /\ InitHandler
    /\ runMode = "direct"
    /\ mw = "idle"
    /\ response = 0
    /\ timedOutIn = ""

NextSearch ==
    \/ SearchStrip
    \/ ProviderReturn
    \/ RankLookup
    \/ RankCompute
    \/ FetchStory
    \/ SearchReturn

SpecSearch == InitSearch /\ [][NextSearch]_vars

---------------------------------------------------------------------------
(* What the claims about search speak of, stated over the request's inputs *)

\* positions of the candidate list by what the store holds for them
Positions == 1..Len(args.candidates)
CandId(p) == args.candidates[p][1]
CandDistance(p) == args.candidates[p][2]
InStore(p) == ~IsNone(FetchOne(store, CandId(p)))
Absent == {p \in Positions : ~InStore(p)}
Survivors ==
    {p \in Positions : InStore(p) /\ ~IsNone(Get(FetchOne(store, CandId(p))).title)}

CandScore(p) ==
    LET r == Get(FetchOne(store, CandId(p)))
    IN  IF IsNone(r.score) THEN 1 ELSE Get(r.score)
CandAge(p) ==
    LET r == Get(FetchOne(store, CandId(p)))
    IN  IF IsNone(r.time) THEN 0 ELSE Get(r.time)
CandTitle(p) == Get(Get(FetchOne(store, CandId(p))).title)

\* some signal has the same value for every surviving candidate
Degenerate ==
    \/ Cardinality({CandScore(p) : p \in Survivors}) = 1
    \/ Cardinality({CandAge(p) : p \in Survivors}) = 1
    \/ Cardinality({CandDistance(p) : p \in Survivors}) = 1

\* 0.4*normScore + 0.4*(1-normDistance) + 0.1*normAge + 0.1*overlapCount of
\* position p, times 10 and times the three ranges (needs ~Degenerate)
Fused(p) ==
    LET S  == {CandScore(x) : x \in Survivors}
        A  == {CandAge(x) : x \in Survivors}
        D  == {CandDistance(x) : x \in Survivors}
        rs == SetMax(S) - SetMin(S)
        ra == SetMax(A) - SetMin(A)
        rd == SetMax(D) - SetMin(D)
    IN  4 * (CandScore(p) - SetMin(S)) * ra * rd
          + 4 * (SetMax(D) - CandDistance(p)) * rs * ra
          + 1 * (CandAge(p) - SetMin(A)) * rs * rd
          + 1 * Matches(Strip(args.query), CandTitle(p)) * rs * ra * rd

\* p comes before q: higher fused score, then higher item id
Ahead(p, q) ==
    \/ Fused(p) > Fused(q)
    \/ Fused(p) = Fused(q) /\ CandId(p) > CandId(q)

\* the ids of all survivors, descending by (fused score, item id)
ExpectedOrder ==
    [k \in 1..Cardinality(Survivors) |->
        CandId(CHOOSE p \in Survivors :
                   Cardinality({q \in Survivors : Ahead(q, p)}) = k - 1)]

RankedIds == [k \in 1..Len(rankings) |-> rankings[k][2]]
StoryIds == [k \in 1..Len(stories) |-> stories[k].item.id]
Ranked == pc \in {"fetch", "done"}
Ended == pc \in {"done", "error"}

\* C1: for every query, candidate list and positive limit, search returns
\* the items of the first `limit` entries of all title-bearing candidates
\* sorted descending by (fused score, item id).  Stated as: the handler
\* never ends in an exception, and when it returns, the returned items are
\* that prefix (the order is left open where the fused score is undefined).
C1_SearchReturnsTopRanked ==
    /\ pc # "error"
    /\ (pc = "done" /\ ~Degenerate) => StoryIds = Take(ExpectedOrder, args.limit)

\* the end-to-end example of the specification
ExampleInput ==
    /\ store = SearchStore
    /\ args.query = Str_rust_borrow_checker
    /\ args.candidates = << <<1, 2>>, <<2, 1>>, <<3, 9>> >>

\* C2 (as stated): on the example the Ranker orders the items 1, 3, 2.
C2_ExampleOrder132 == (ExampleInput /\ Ranked) => RankedIds = <<1, 3, 2>>

\* C2 (amended): on the example the Ranker orders the items 1, 2, 3.
C2_ExampleOrder123 == (ExampleInput /\ Ranked) => RankedIds = <<1, 2, 3>>

C2_Witness == ExampleInput /\ pc = "done" /\ StoryIds = <<1, 2, 3>>

\* C3: for a non-empty set of title-bearing candidates with a degenerate
\* signal, rank does not fail and returns an ordering of every survivor.
\* (Candidates missing from the store are left out of the case: C5.)
C3_DegenerateDoesNotFail ==
    (Absent = {} /\ Survivors # {} /\ Degenerate) =>
        /\ error = ""
        /\ Ranked => Len(rankings) = Cardinality(Survivors)

\* C4: with no title-bearing candidate, rank returns an empty ordering and
\* search an empty list, without an error.
C4_EmptyIsNoResults ==
    (Absent = {} /\ Survivors = {}) =>
        /\ error = ""
        /\ Ranked => rankings = <<>>
        /\ pc = "done" => stories = <<>>

\* the title-bearing candidates would rank without C3's or C4's failure
Rankable == Survivors # {} /\ ~Degenerate

\* C5: a candidate whose id is not in the store is silently dropped: rank
\* completes without error and orders exactly the other candidates.
C5_MissingItemDropped ==
    (Absent # {} /\ Rankable) =>
        /\ error = ""
        /\ Ranked => RankedIds = ExpectedOrder

\* C10: every cursor opened while handling a search request is closed when
\* the request ends, on normal return and on failure.
C10_CursorsClosedAtEnd == Ended => openCursors = {}

---------------------------------------------------------------------------
(* get_items                                                               *)

MAX_NUM == 50

\* The database decides what the query leaves open: the order in which a
\* scan yields rows (which is also the order of rows with equal sort keys)
\* and whether NULL sorts below or above every value.
Engines == [scan : {"asc", "desc"}, nullsLow : BOOLEAN]

\* session.query(Item): the rows of `items` in scan order (the ids of the
\* table are 1..n)
ScanItems(st, eng) ==
    LET n == Cardinality(DOMAIN st.items)
    IN  [k \in 1..n |->
            Get(st.items[IF eng.scan = "asc" THEN k ELSE n + 1 - k])]

\* A faulty variant of ClampLimit: the cap is not applied.
ClampLimitNoCap(limit) == limit

\* if limit > MAX_NUM: limit = MAX_NUM
ClampLimit(limit) == IF limit > MAX_NUM THEN MAX_NUM ELSE limit

\* SQL comparisons of a nullable column with a value: NULL satisfies none
ColEq(col, v) == ~IsNone(col) /\ Get(col) = v
ColLe(col, v) == ~IsNone(col) /\ Get(col) <= v
ColGe(col, v) == ~IsNone(col) /\ Get(col) >= v
ColContains(col, v) == ~IsNone(col) /\ Contains(Get(col), v)

\* .filter(Item.type == item_type): with item_type None SQLAlchemy renders
\* the comparison as `items.type IS NULL`
TypePredicate(r, item_type) ==
    IF IsNone(item_type) THEN IsNone(r.type) ELSE ColEq(r.type, Get(item_type))

\* the filters of lines 78-94, each applied only when its argument is given
OptionalPredicates(r, a) ==
    /\ IsNone(a.by) \/ ColEq(r.by, Get(a.by))
    /\ IsNone(a.before_time) \/ ColLe(r.time, Get(a.before_time))
    /\ IsNone(a.after_time) \/ ColGe(r.time, Get(a.after_time))
    /\ IsNone(a.min_score) \/ ColGe(r.score, Get(a.min_score))
    /\ IsNone(a.max_score) \/ ColLe(r.score, Get(a.max_score))
    /\ IsNone(a.min_comments) \/ ColGe(r.descendants, Get(a.min_comments))
    /\ IsNone(a.max_comments) \/ ColLe(r.descendants, Get(a.max_comments))
    /\ IsNone(a.query)
         \/ ColContains(r.title, Get(a.query))
         \/ ColContains(r.text, Get(a.query))

\* the query after the filters: the matching rows, in scan order
FilterItems(rows, a) ==
    SelectSeq(rows, LAMBDA r : TypePredicate(r, a.item_type)
                                 /\ OptionalPredicates(r, a))

\* getattr(Item, sort_by.value)
SortColumn(r, sort_by) == IF sort_by = "score" THEN r.score ELSE r.time

\* x sorts strictly below y in ascending order
KeyBelow(x, y, eng) ==
    IF IsNone(x) \/ IsNone(y)
    THEN IF eng.nullsLow THEN IsNone(x) /\ ~IsNone(y)
                         ELSE ~IsNone(x) /\ IsNone(y)
    ELSE Get(x) < Get(y)

\* lines 97-102: order_by(sort_column.asc() / .desc()) when both sort_by
\* and sort_order are given; rows of equal key stay in scan order
OrderItems(rows, a, eng) ==
    IF IsNone(a.sort_by) \/ IsNone(a.sort_order) THEN rows
    ELSE LET key(k) == SortColumn(rows[k], Get(a.sort_by))
             before(i, j) ==
                 \/ IF Get(a.sort_order) = "asc"
                    THEN KeyBelow(key(i), key(j), eng)
                    ELSE KeyBelow(key(j), key(i), eng)
                 \/ /\ ~KeyBelow(key(i), key(j), eng)
                    /\ ~KeyBelow(key(j), key(i), eng)
                    /\ i < j
             perm == SortSeq([k \in 1..Len(rows) |-> k], before)
         IN  [k \in 1..Len(rows) |-> rows[perm[k]]]

\* items_query.offset(skip).limit(limit).all()
OffsetLimit(rows, skip, limit) == Take(Drop(rows, skip), limit)

\* get_items(session, ...)
GetItems(st, a, eng) ==
    OffsetLimit(OrderItems(FilterItems(ScanItems(st, eng), a), a, eng),
                a.skip, ClampLimit(a.limit))

ListItems ==
    /\ pc = "start"
    /\ CanStart
    /\ listed' = GetItems(store, args, engine)
    /\ storeOps' = storeOps + 1
    /\ pc' = "done"
    /\ UNCHANGED <<store, args, idx, error, engine>>
    /\ UNCHANGED <<searchVars, previewVars, mwVars>>

---------------------------------------------------------------------------
(* Listing requests: the store and the inputs                              *)

NumItems == 64    \* rows of `items` in the listing store
MaxSkip == 4      \* largest `skip` of a listing request
MaxActive == 2    \* optional filters given in one request, at most
OverLimit == 2    \* how far `limit` may exceed MAX_NUM

Str_x == <<"x">>
Str_yx == <<"y", "x">>
Str_z == <<"z">>

\* Every twentieth row is a comment, every twentieth has no type, row 7 is
\* a job, the rest are stories.  Scores, times and comment counts repeat,
\* so that sort keys tie.
ListRow(i) ==
    LET kind == IF i % 20 = 0 THEN Some("comment")
                ELSE IF i % 20 = 10 THEN None
                ELSE IF i = 7 THEN Some("job")
                ELSE Some("story")
        isComment == kind = Some("comment")
    IN  Row(i, kind,
            IF isComment THEN None
            ELSE IF i % 3 = 0 THEN Some(Str_x) ELSE Some(Str_z),
            IF isComment \/ i % 4 = 1 THEN Some(Str_yx) ELSE None,
            IF isComment THEN None ELSE Some((i * 7) % 5),
            Some(100 + ((i * 3) % 11)),
            IF i % 2 = 0 THEN Some("a") ELSE Some("b"),
            IF isComment THEN None ELSE Some(i % 3))

ListStore == [items |-> [i \in 1..NumItems |-> Some(ListRow(i))], kids |-> {}]

OptionalFilters ==
    [by : {None, Some("a")},
     before_time : {None, Some(105)}, after_time : {None, Some(103)},
     min_score : {None, Some(1)}, max_score : {None, Some(3)},
     min_comments : {None, Some(1)}, max_comments : {None, Some(1)},
     query : {None, Some(Str_x)}]

FilterNames == {"by", "before_time", "after_time", "min_score", "max_score",
                "min_comments", "max_comments", "query"}

ListArgs ==
    {f @@ g : f \in {o \in OptionalFilters :
                        Cardinality({n \in FilterNames : ~IsNone(o[n])})
                            <= MaxActive},
              g \in [item_type : {None, Some("story"), Some("comment")},
                     sort_by : {None, Some("score"), Some("time")},
                     sort_order : {None, Some("asc"), Some("desc")},
                     skip : {0, MaxSkip},
                     limit : {1, MAX_NUM, MAX_NUM + OverLimit}]}

InitList ==
    /\ store = ListStore
    /\ args \in ListArgs
    /\ pc = "start"
    /\ query = <<>>
    /\ results = <<>>
    /\ expanded = <<>>
    /\ rankings = <<>>
    /\ stories = <<>>
    /\ idx = 0
    /\ cursor = 0
    /\ openCursors = {}
    /\ nextCursor = 1
    /\ error = ""
    /\ storeOps = 0
    /\ listed = <<>>
    /\ engine \in Engines
    /\ comments = <<>>
    /\ comment_text = <<>>
    /\ runMode = "direct"
    /\ mw = "idle"
    /\ response = 0
    /\ timedOutIn = ""

NextList == ListItems

SpecList == InitList /\ [][NextList]_vars

\* C7: with the kind absent, list imposes no restriction on kind: the
\* result is that of the same request without the kind predicate.
C7_AbsentKindUnrestricted ==
    (pc = "done" /\ IsNone(args.item_type)) =>
        listed = OffsetLimit(
                    OrderItems(
                        SelectSeq(ScanItems(store, engine),
                                  LAMBDA r : OptionalPredicates(r, args)),
                        args, engine),
                    args.skip, ClampLimit(args.limit))

\* the full filtered ordering: the request's rows with skip 0 and no limit
FullOrdering ==
    OrderItems(FilterItems(ScanItems(store, engine), args), args, engine)

\* C8: list returns exactly the items at positions skip .. skip+min(limit,
\* 50)-1 of the full filtered ordering (those of them that exist), so never
\* more than 50.
C8_OffsetThenClampedLimit ==
    pc = "done" =>
        LET full == FullOrdering
            last == MinOf(args.skip + MinOf(args.limit, 50), Len(full))
        IN  /\ Len(listed) <= 50
            /\ listed = [k \in 1..(IF last > args.skip THEN last - args.skip ELSE 0)
                            |-> full[args.skip + k]]

\* a request for more than 50 rows, with a skip, that 50 rows answer
C8_Witness ==
    /\ pc = "done"
    /\ args.limit > 50
    /\ args.skip > 0
    /\ Len(listed) = 50
    /\ Len(FullOrdering) > args.skip + 50
    /\ ~IsNone(args.sort_by) /\ ~IsNone(args.sort_order)

---------------------------------------------------------------------------
(* get_comments_text, statement by statement                               *)

\* the first cursor.execute and `comments = [...]`
PreviewQuery ==
    /\ pc = "start"
    /\ CanStart
    /\ comments' = KidComments(store, args.story_id, TopLimit)
    /\ comment_text' = <<>>
    /\ idx' = 1
    /\ storeOps' = storeOps + 1
    /\ pc' = "comments"
    /\ UNCHANGED <<store, args, error>>
    /\ UNCHANGED <<searchVars, listVars, mwVars>>

\* one iteration of `for comment in comments`
PreviewComment ==
    /\ pc = "comments"
    /\ CanStep
    /\ idx <= Len(comments)
    /\ comment_text' = CommentStep(store, comment_text, comments[idx])
    /\ storeOps' = storeOps + (IF Truthy(comments[idx].text) THEN 1 ELSE 0)
    /\ idx' = idx + 1
    /\ UNCHANGED <<store, args, pc, error, comments>>
    /\ UNCHANGED <<searchVars, listVars, mwVars>>

\* return comment_text
PreviewReturn ==
    /\ pc = "comments"
    /\ CanStep
    /\ idx > Len(comments)
    /\ pc' = "done"
    /\ UNCHANGED <<store, args, idx, error, storeOps, comments, comment_text>>
    /\ UNCHANGED <<searchVars, listVars, mwVars>>

---------------------------------------------------------------------------
(* Preview requests: the stores                                            *)

MaxKids == 12    \* kids of the story, at most

\* A story (id 1) with n kids, ids 11..10+n, whose display order is not the
\* order of their ids.  Kid i may have two kids of its own, 100+2i and
\* 101+2i, the second displayed first, and that one a kid again (200+i).
\*   texts 2: every second kid has the empty text; 3: every third has none
\*   kinds 1: every fourth kid is not a comment
\*   replies 0: no kid has kids; 1: every kid has; 2: every kid has, and the
\*     first reply of the odd ones has the empty text; 3: only the odd ones
\*     have, and their first reply is not a comment
TextFor(id) == Some(<<"t", ToString(id)>>)

HasReplies(i, p) == p.replies \in {1, 2} \/ (p.replies = 3 /\ i % 2 = 1)

PreviewIds(n, p) ==
    {1} \cup {10 + i : i \in 1..n}
        \cup UNION {{100 + 2 * i, 101 + 2 * i, 200 + i} :
                       i \in {j \in 1..n : HasReplies(j, p)}}

PreviewRow(id, p) ==
    IF id = 1
    THEN Row(1, Some("story"), Some(Str_rust), None, Some(3), Some(100),
             Some("a"), Some(0))
    ELSE IF id < 100
    THEN LET i == id - 10
         IN  Row(id,
                 IF p.kinds = 1 /\ i % 4 = 1 THEN Some("story") ELSE Some("comment"),
                 None,
                 IF p.texts = 2 /\ i % 2 = 0 THEN Some(<<>>)
                 ELSE IF p.texts = 3 /\ i % 3 = 0 THEN None
                 ELSE TextFor(id),
                 None, Some(100 + i), Some("b"), None)
    ELSE IF id < 200
    THEN LET i == (id - 100) \div 2
             first == id % 2 = 1
         IN  Row(id,
                 IF first /\ p.replies = 3 THEN Some("story") ELSE Some("comment"),
                 None,
                 IF first /\ p.replies = 2 /\ i % 2 = 1 THEN Some(<<>>)
                 ELSE TextFor(id),
                 None, Some(200 + i), Some("a"), None)
    ELSE Row(id, Some("comment"), None, TextFor(id), None, Some(300), Some("b"),
             None)

PreviewStore(n, p) ==
    [items |-> [id \in PreviewIds(n, p) |-> Some(PreviewRow(id, p))],
     kids  |-> {Edge(1, 10 + i, (i * 5) % 17) : i \in 1..n}
                 \cup UNION {{Edge(10 + i, 100 + 2 * i, 1),
                              Edge(10 + i, 101 + 2 * i, 0),
                              Edge(101 + 2 * i, 200 + i, 0)} :
                                i \in {j \in 1..n : HasReplies(j, p)}}]

PreviewShapes == [texts : 1..3, kinds : 0..1, replies : 0..3]

InitPreview ==
    /\ \E n \in 0..MaxKids, p \in PreviewShapes : store = PreviewStore(n, p)
    /\ args = [story_id |-> 1]
    /\ InitHandler
    /\ runMode = "direct"
    /\ mw = "idle"
    /\ response = 0
    /\ timedOutIn = ""

NextPreview ==
    \/ PreviewQuery
    \/ PreviewComment
    \/ PreviewReturn

SpecPreview == InitPreview /\ [][NextPreview]_vars

\* the comment kids of an item and their display order, read off the store
CommentKidsOf(parent) ==
    {e.kid : e \in {f \in store.kids :
                       /\ f.item = parent
                       /\ f.kid \in DOMAIN store.items
                       /\ Get(store.items[f.kid]).type = Some("comment")}}
DisplayOrder(parent, kid) ==
    (CHOOSE e \in store.kids : e.item = parent /\ e.kid = kid).display_order
\* the first 10 comment kids of the story by ascending display order
FirstTen ==
    {c \in CommentKidsOf(args.story_id) :
        Cardinality({d \in CommentKidsOf(args.story_id) :
                        DisplayOrder(args.story_id, d)
                            < DisplayOrder(args.story_id, c)}) < 10}
\* the first comment kid of c by display order
IsFirstReply(c, r) ==
    /\ r \in CommentKidsOf(c)
    /\ \A d \in CommentKidsOf(c) : DisplayOrder(c, r) <= DisplayOrder(c, d)

IsParentAt(j) == comment_text[j].id \in FirstTen
IsReplyAt(j) ==
    /\ j > 1
    /\ IsParentAt(j - 1)
    /\ IsFirstReply(comment_text[j - 1].id, comment_text[j].id)

\* C9: preview returns at most 20 fragments; each is the text of one of the
\* first 10 comment kids of the story, these in ascending display order, or
\* the text of the first comment kid of the fragment just before it, which
\* is one of those 10; so nothing comes from deeper than a grandchild.
C9_PreviewInterleaving ==
    pc = "done" =>
        /\ Len(comment_text) <= 20
        /\ \A j \in 1..Len(comment_text) :
              /\ Truthy(comment_text[j].text)
              /\ IsParentAt(j) \/ IsReplyAt(j)
        /\ \A i, j \in 1..Len(comment_text) :
              (i < j /\ IsParentAt(i) /\ IsParentAt(j)) =>
                  DisplayOrder(args.story_id, comment_text[i].id)
                      < DisplayOrder(args.story_id, comment_text[j].id)
        /\ \A c \in FirstTen :
              Truthy(Get(store.items[c]).text) =>
                  \E j \in 1..Len(comment_text) :
                      /\ comment_text[j].id = c
                      /\ \A r \in CommentKidsOf(c) :
                            (IsFirstReply(c, r) /\ Truthy(Get(store.items[r]).text))
                                => /\ j < Len(comment_text)
                                   /\ comment_text[j + 1].id = r

\* a story with more than 10 comment kids whose preview has 20 fragments
C9_Witness ==
    /\ pc = "done"
    /\ Cardinality(CommentKidsOf(args.story_id)) > 10
    /\ Len(comment_text) = 20
    /\ IsReplyAt(20)

---------------------------------------------------------------------------
(* TimeoutMiddleware.dispatch                                              *)

\* task = asyncio.create_task(call_next_with_request()), then
\* await asyncio.wait_for(task, timeout=10) starts waiting
Dispatch ==
    /\ mw = "idle"
    /\ runMode # "direct"
    /\ mw' = "waiting"
    /\ UNCHANGED <<store, args, pc, idx, error, storeOps, runMode, response,
                   timedOutIn>>
    /\ UNCHANGED <<searchVars, listVars, previewVars>>

\* the 10 seconds pass before the task is done: wait_for raises
\* asyncio.TimeoutError and dispatch calls task.cancel().  On the event
\* loop this happens only between two steps of the loop, so not while the
\* handler, which never awaits, is between its first and last statement.
TimeoutExpire ==
    /\ mw = "waiting"
    /\ runMode = "thread" \/ pc \in {"start", "done", "error"}
    /\ timedOutIn' = pc
    /\ mw' = "cancelled"
    /\ UNCHANGED <<store, args, pc, idx, error, storeOps, runMode, response>>
    /\ UNCHANGED <<searchVars, listVars, previewVars>>

\* `await task` ends with CancelledError, which is passed over, and the
\* response is JSONResponse(status_code=408)
AwaitCancelled ==
    /\ mw = "cancelled"
    /\ response' = 408
    /\ mw' = "responded"
    /\ UNCHANGED <<store, args, pc, idx, error, storeOps, runMode, timedOutIn>>
    /\ UNCHANGED <<searchVars, listVars, previewVars>>

\* the task is done in time: wait_for returns its response, or raises the
\* handler's exception, which dispatch does not catch (a 500 to the caller)
Respond ==
    /\ mw = "waiting"
    /\ pc \in {"done", "error"}
    /\ response' = IF pc = "done" THEN 200 ELSE 500
    /\ mw' = "responded"
    /\ UNCHANGED <<store, args, pc, idx, error, storeOps, runMode, timedOutIn>>
    /\ UNCHANGED <<searchVars, listVars, previewVars>>

---------------------------------------------------------------------------
(* Search requests under the middleware                                    *)

TimeoutCandidates ==
    { <<>>, << <<6, 1>> >>, << <<1, 2>>, <<2, 1>> >>,
      << <<1, 2>>, <<2, 1>>, <<3, 9>> >>, << <<4, 2>>, <<1, 2>>, <<3, 9>> >> }

InitTimeout ==
    /\ store = SearchStore
    /\ args \in [query : QueryPool, limit : 1..MaxLimit,
                 exclude_comments : BOOLEAN, candidates : TimeoutCandidates]
    /\ InitHandler
    /\ runMode \in {"thread", "loop"}
    /\ mw = "idle"
    /\ response = 0
    /\ timedOutIn = ""

NextTimeout ==
    \/ Dispatch
    \/ TimeoutExpire
    \/ AwaitCancelled
    \/ Respond
    \/ SearchStrip
    \/ ProviderReturn
    \/ RankLookup
    \/ RankCompute
    \/ FetchStory
    \/ SearchReturn

SpecTimeout == InitTimeout /\ [][NextTimeout]_vars

\* C6: when the provider call does not return within the budget, the
\* caller receives one Timeout failure (408), and once it is reported no
\* statement of that request is run against the store (and the response
\* stays the 408).
C6_NoStoreWorkAfterTimeout ==
    [][(response = 408 /\ timedOutIn = "provider")
            => (response' = 408 /\ storeOps' = storeOps)]_vars

===========================================================================
